---- MODULE Spec2Model ----
(***************************************************************************)
(* Price ingestion and export service (main.go, db/10-init.sql).           *)
(*                                                                         *)
(* POST /api/v0/prices: ingestCSV parses data.csv, drops rejected rows and *)
(* in-file duplicates, then inserts the remaining rows in one READ         *)
(* COMMITTED transaction with INSERT ... ON CONFLICT DO NOTHING, reads the *)
(* aggregates and commits.  GET /api/v0/prices: handlePricesGet validates  *)
(* the four optional bounds and runs one SELECT ordered by created_at, id. *)
(*                                                                         *)
(* Text is modelled as a sequence of one-character strings; a price is an  *)
(* integer number of thousandths while it is parsed and an integer number  *)
(* of hundredths (the NUMERIC(12,2) value times 100) once normalised; a    *)
(* date is the number yyyymmdd.  A price read from the text "NaN" is the   *)
(* value NaN, which the column accepts, and one read from "Inf" is the     *)
(* value +Inf, which it does not.                                          *)
(*                                                                         *)
(* A request body is an archive given by its format, its entries in order  *)
(* and their sizes in bytes; data.csv is written and read as csv text by   *)
(* the rules of encoding/csv.                                              *)
(*                                                                         *)
(* The table is the one of db/10-init.sql.  The database is PostgreSQL     *)
(* under READ COMMITTED: a statement sees the rows committed before it     *)
(* started and the rows of its own transaction; an INSERT ... ON CONFLICT  *)
(* DO NOTHING that meets a conflicting row of a transaction in progress    *)
(* waits for that transaction; a cycle of such waits is broken by failing  *)
(* one of the waiting statements.  A commit that returns an error has not  *)
(* committed.                                                              *)
(***************************************************************************)
EXTENDS Integers, Sequences, FiniteSets, TLC

\* Bounds of the model.
MaxRows == 3
MaxUploads == 2
MaxTotalRows == 4

(***************************************************************************)
(* Text helpers: strings.TrimSpace, strings.ReplaceAll, digits.            *)
(***************************************************************************)
Digits == <<"0", "1", "2", "3", "4", "5", "6", "7", "8", "9">>

IsDigit(c) == \E i \in 1..10 : Digits[i] = c

DigitVal(c) == (CHOOSE i \in 1..10 : Digits[i] = c) - 1

RECURSIVE TrimLeft(_)
TrimLeft(s) ==
  IF s # <<>> /\ Head(s) = " " THEN TrimLeft(Tail(s)) ELSE s

RECURSIVE TrimRight(_)
TrimRight(s) ==
  IF s # <<>> /\ s[Len(s)] = " " THEN TrimRight(SubSeq(s, 1, Len(s) - 1)) ELSE s

TrimSpace(s) == TrimRight(TrimLeft(s))

ReplaceAll(s, old, new) == [i \in 1..Len(s) |-> IF s[i] = old THEN new ELSE s[i]]

AllDigits(s) == \A i \in 1..Len(s) : IsDigit(s[i])

RECURSIVE DigitsVal(_)
DigitsVal(s) ==
  IF s = <<>> THEN 0 ELSE 10 * DigitsVal(SubSeq(s, 1, Len(s) - 1)) + DigitVal(s[Len(s)])

IndexOf(s, c) ==
  IF \E i \in 1..Len(s) : s[i] = c
  THEN CHOOSE i \in 1..Len(s) : s[i] = c /\ \A j \in 1..(i - 1) : s[j] # c
  ELSE 0

RECURSIVE Pow10(_)
Pow10(n) == IF n = 0 THEN 1 ELSE 10 * Pow10(n - 1)

\* strings.EqualFold on texts of ASCII letters: equal after case folding
UpperLetters ==
  <<"A", "B", "C", "D", "E", "F", "G", "H", "I", "J", "K", "L", "M",
    "N", "O", "P", "Q", "R", "S", "T", "U", "V", "W", "X", "Y", "Z">>

LowerLetters ==
  <<"a", "b", "c", "d", "e", "f", "g", "h", "i", "j", "k", "l", "m",
    "n", "o", "p", "q", "r", "s", "t", "u", "v", "w", "x", "y", "z">>

Lower(c) ==
  IF \E k \in 1..26 : UpperLetters[k] = c
  THEN LowerLetters[CHOOSE k \in 1..26 : UpperLetters[k] = c]
  ELSE c

ToLower(s) == [k \in 1..Len(s) |-> Lower(s[k])]

EqualFold(s, t) == ToLower(s) = ToLower(t)

\* the byte 0x00 inside a text
NUL == "0x00"

(***************************************************************************)
(* strconv.ParseFloat on the texts the model feeds it: "NaN" in any case,  *)
(* "Inf" or "Infinity" in any case with an optional sign (the sign of an   *)
(* infinity is given as mills = 1 or -1), or an optional sign, digits, an  *)
(* optional point and digits, at least one digit.  A number is returned in units of 10^-FracDigits (thousandths);  *)
(* texts carry at most FracDigits fraction digits.                         *)
(***************************************************************************)
FracDigits == 3

\* the float64 NaN where a price in hundredths is expected
NaN == 0 - 1

\* the float64 +Inf where a price in hundredths is expected
Inf == 0 - 2

ParseFloat(s) ==
  LET neg  == s # <<>> /\ Head(s) = "-"
      body == IF s # <<>> /\ Head(s) \in {"-", "+"} THEN Tail(s) ELSE s
      dot  == IndexOf(body, ".")
      ip   == IF dot = 0 THEN body ELSE SubSeq(body, 1, dot - 1)
      fp   == IF dot = 0 THEN <<>> ELSE SubSeq(body, dot + 1, Len(body))
      ok   == /\ AllDigits(ip)
              /\ AllDigits(fp)
              /\ Len(ip) + Len(fp) > 0
              /\ Len(fp) <= FracDigits
      mag  == DigitsVal(ip) * Pow10(FracDigits) + DigitsVal(fp) * Pow10(FracDigits - Len(fp))
  IN IF ToLower(s) = <<"n", "a", "n">>
     THEN [ok |-> TRUE, nan |-> TRUE, inf |-> FALSE, mills |-> 0]
     ELSE IF ToLower(body) \in {<<"i", "n", "f">>, <<"i", "n", "f", "i", "n", "i", "t", "y">>}
     THEN [ok |-> TRUE, nan |-> FALSE, inf |-> TRUE, mills |-> IF neg THEN 0 - 1 ELSE 1]
     ELSE IF ok
     THEN [ok |-> TRUE, nan |-> FALSE, inf |-> FALSE, mills |-> IF neg THEN 0 - mag ELSE mag]
     ELSE [ok |-> FALSE, nan |-> FALSE, inf |-> FALSE, mills |-> 0]

\* math.Round(f*100): half away from zero, from thousandths to hundredths.
RoundCents(mills) ==
  LET unit == Pow10(FracDigits - 2)
      half == unit \div 2
  IN IF mills >= 0 THEN (mills + half) \div unit ELSE 0 - ((half - mills) \div unit)

\* variant: the comma is not replaced
parsePriceNoComma(s) ==
  LET t == TrimSpace(s)
      f == ParseFloat(t)
  IN IF ~f.ok \/ (~f.nan /\ f.mills <= 0) THEN [ok |-> FALSE, price |-> 0]
     ELSE IF f.nan THEN [ok |-> TRUE, price |-> NaN]
     ELSE IF f.inf THEN [ok |-> TRUE, price |-> Inf]
     ELSE IF RoundCents(f.mills) <= 0 THEN [ok |-> FALSE, price |-> 0]
     ELSE [ok |-> TRUE, price |-> RoundCents(f.mills)]

\* parsePrice: the price in hundredths, or an error.  Neither NaN <= 0 nor
\* math.Round(NaN*100)/100 <= 0 holds, so NaN is returned as a price, and so
\* is +Inf.
parsePrice(s) ==
  LET t == ReplaceAll(TrimSpace(s), ",", ".")
      f == ParseFloat(t)
  IN IF ~f.ok \/ (~f.nan /\ f.mills <= 0) THEN [ok |-> FALSE, price |-> 0]
     ELSE IF f.nan THEN [ok |-> TRUE, price |-> NaN]
     ELSE IF f.inf THEN [ok |-> TRUE, price |-> Inf]
     ELSE IF RoundCents(f.mills) <= 0 THEN [ok |-> FALSE, price |-> 0]
     ELSE [ok |-> TRUE, price |-> RoundCents(f.mills)]

(***************************************************************************)
(* time.Parse("2006-01-02", s): four digits, '-', two digits, '-', two     *)
(* digits, a month in 1..12 and a day that exists in that month.           *)
(***************************************************************************)
IsLeap(y) == (y % 4 = 0 /\ y % 100 # 0) \/ y % 400 = 0

DaysIn(y, m) ==
  IF m = 2 THEN (IF IsLeap(y) THEN 29 ELSE 28)
  ELSE IF m \in {4, 6, 9, 11} THEN 30 ELSE 31

ParseDate(s) ==
  LET shape == /\ Len(s) = 10
               /\ s[5] = "-"
               /\ s[8] = "-"
               /\ \A i \in {1, 2, 3, 4, 6, 7, 9, 10} : IsDigit(s[i])
      y == DigitsVal(SubSeq(s, 1, 4))
      m == DigitsVal(SubSeq(s, 6, 7))
      d == DigitsVal(SubSeq(s, 9, 10))
  IN IF shape /\ m \in 1..12 /\ d \in 1..DaysIn(y, m)
     THEN [ok |-> TRUE, date |-> y * 10000 + m * 100 + d]
     ELSE [ok |-> FALSE, date |-> 0]

(***************************************************************************)
(* fmt.Sprintf("%.2f", v) of a price held in hundredths, and the in-file   *)
(* duplicate key of ingestCSV.                                             *)
(***************************************************************************)
RECURSIVE NatText(_)
NatText(n) ==
  IF n < 10 THEN <<Digits[n + 1]>> ELSE NatText(n \div 10) \o <<Digits[(n % 10) + 1]>>

formatMoney(cents) ==
  IF cents = NaN THEN <<"N", "a", "N">>
  ELSE IF cents = Inf THEN <<"+", "I", "n", "f">>
  ELSE NatText(cents \div 100) \o <<".">>
         \o <<Digits[((cents \div 10) % 10) + 1], Digits[(cents % 10) + 1]>>

\* variant: the external identifier is part of the in-file key
KeyWithID(inputID, createdAtStr, name, category, price) ==
  inputID \o <<"|">> \o createdAtStr \o <<"|">> \o name \o <<"|">> \o category
    \o <<"|">> \o formatMoney(price)

\* "%s|%s|%s|%.2f" of createdAtStr, name, category, price
keyNoID(inputID, createdAtStr, name, category, price) ==
  createdAtStr \o <<"|">> \o name \o <<"|">> \o category \o <<"|">> \o formatMoney(price)

(***************************************************************************)
(* The records the CSV reader can hand to ingestCSV after the header, and  *)
(* the files built from them.  A file is a sequence of indexes into        *)
(* RawRows.                                                                *)
(***************************************************************************)
DateA == <<"2", "0", "2", "4", "-", "0", "1", "-", "0", "1">>
DateB == <<"2", "0", "2", "4", "-", "0", "1", "-", "0", "2">>

\* a text of the right shape that names no day of the calendar
NoSuchDay == <<"2", "0", "2", "4", "-", "0", "2", "-", "3", "0">>

RawRows ==
  << << <<"a">>, <<"n">>, <<"c">>, <<"1", "0", ".", "0", "0">>, DateB >>,
     << <<" ", "b">>, <<"n", " ">>, <<"c">>, <<"1", "0">>, DateB >>,
     << <<"a">>, <<"n">>, <<"d">>, <<"2", ".", "5">>, DateA >>,
     << <<"a">>, <<"n">>, <<"c">>, <<"1", "0">> >>,
     << <<"b">>, <<"m">>, <<"c">>, <<"0", ".", "9", "9", "6">>, DateA >>,
     << <<"a">>, <<"n", "|", "c">>, <<"d">>, <<"3">>, DateA >>,
     << <<"a">>, <<"n">>, <<"c", "|", "d">>, <<"3">>, DateA >>,
     << <<"a">>, <<"n">>, <<"c">>, <<"1", "2", ",", "5", "0">>, DateA >>,
     << <<"a">>, <<"n">>, <<"c">>, <<"1", "2", ".", "5", "0">>, DateA >>,
     << <<"a">>, <<" ">>, <<"c">>, <<"1">>, DateA >>,
     << <<"a">>, <<"n">>, <<"c">>, <<"N", "a", "N">>, DateA >>,
     << <<"a">>, <<"n">>, <<"c">>, <<"0", ".", "0", "0", "4">>, DateA >>,
     << <<"a">>, <<"n">>, <<"c">>, <<"-", "1">>, DateA >>,
     << <<"a">>, <<"n">>, <<"c">>, <<"1">>, NoSuchDay >>,
     << <<"a">>, <<"n">>, <<"c">>, <<"x">>, DateA >>,
     << <<NUL>>, <<"n">>, <<"c">>, <<"1", "0", ".", "0", "0">>, DateB >>,
     << <<"a">>, <<"n">>, <<"c">>, <<"1">>, DateA, <<"z">> >>,
     << <<"b">>, <<"n">>, <<"c">>, <<"1", "0", ".", "0", "0">>, DateB >>,
     << <<"a">>, <<"n", ",", "m">>, <<"c">>, <<"3">>, DateA >>,
     << <<"a">>, <<"n">>, <<"c">>, <<"I", "n", "f">>, DateA >> >>

RowIds == 1..Len(RawRows)

SeqsUpTo(S, n) == UNION {[1..k -> S] : k \in 0..n}

\* the files of concurrent uploads: the rows 1..4 (two identities, one of them
\* under two external identifiers, and a record of four fields)
Files == SeqsUpTo({1, 2, 3, 4}, MaxRows)

\* the files uploaded beside an export: three identities, two of them of one date
FilesGet == SeqsUpTo({1, 3, 5}, MaxRows)

\* the files of the validation checks: a record of four and one of six fields, a
\* blank name, the prices NaN, 0.004, -1 and x, a day that does not exist, and
\* two valid records
FilesVal == SeqsUpTo({3, 4, 9, 10, 11, 12, 13, 14, 15, 17}, MaxRows)

\* the files whose export is uploaded again: two records whose names and
\* categories hold a '|', and another record
FilesTrip == SeqsUpTo({3, 6, 7}, MaxRows)

\* the files sent to two stores: one identity under the external identifiers
\* a, b and one that holds the byte 0x00, and another record
\* files for the exports: a plain row, a price that rounds up, a name with a
\* comma, the price NaN
FilesZip == SeqsUpTo({3, 5, 11, 19}, MaxRows)

\* files with a price beyond every number
FilesBig == SeqsUpTo({1, 3, 20}, MaxRows)

MaxTwinRows == 2

FilesTwin == SeqsUpTo({1, 3, 16, 18}, MaxTwinRows)

\* the files of the decimal separator checks: one record with the price written
\* 12,50 and 12.50, and another record
FilesComma == SeqsUpTo({3, 8, 9}, MaxRows)

(***************************************************************************)
(* ingestCSV, part 1: the read loop.  ReadRow is one iteration; the        *)
(* accumulator holds totalCount, seenNoID, validRows and rejectedAsDup.    *)
(* lines records, for each entry of validRows, the index of the file row   *)
(* it came from.                                                           *)
(***************************************************************************)
EmptyRead ==
  [totalCount |-> 0, seenNoID |-> {}, validRows |-> <<>>, rejectedAsDup |-> 0, lines |-> <<>>]

\* variant: a rejected row is counted in totalCount only
RejectUncounted(acc) ==
  [acc EXCEPT !.totalCount = @ + 1]

Reject(acc) ==
  [acc EXCEPT !.totalCount = @ + 1, !.rejectedAsDup = @ + 1]

ReadRow(acc, rec, line) ==
  IF Len(rec) # 5 THEN Reject(acc)
  ELSE
    LET inputID      == TrimSpace(rec[1])
        name         == TrimSpace(rec[2])
        category     == TrimSpace(rec[3])
        priceStr     == TrimSpace(rec[4])
        createdAtStr == TrimSpace(rec[5])
        createdAt    == ParseDate(createdAtStr)
        price        == parsePrice(priceStr)
        key          == keyNoID(inputID, createdAtStr, name, category, price.price)
    IN IF inputID = <<>> \/ createdAtStr = <<>> \/ name = <<>> \/ category = <<>> \/ priceStr = <<>>
       THEN Reject(acc)
       ELSE IF ~createdAt.ok THEN Reject(acc)
       ELSE IF ~price.ok THEN Reject(acc)
       ELSE IF key \in acc.seenNoID THEN Reject(acc)
       ELSE [totalCount    |-> acc.totalCount + 1,
             seenNoID      |-> acc.seenNoID \cup {key},
             validRows     |-> Append(acc.validRows,
                                      [InputID   |-> inputID,
                                       CreatedAt |-> createdAt.date,
                                       Name      |-> name,
                                       Category  |-> category,
                                       Price     |-> price.price]),
             rejectedAsDup |-> acc.rejectedAsDup,
             lines         |-> Append(acc.lines, line)]

RECURSIVE ReadRows(_, _)
ReadRows(f, n) ==
  IF n = 0 THEN EmptyRead ELSE ReadRow(ReadRows(f, n - 1), RawRows[f[n]], n)

\* variant: the file is read from its last row to its first
ReadCSVBackwards(f) ==
  LET g == [k \in 1..Len(f) |-> f[Len(f) + 1 - k]] IN ReadRows(g, Len(g))

ReadCSV(f) == ReadRows(f, Len(f))

\* the read loop over records given as such
RECURSIVE ReadRecsUpTo(_, _)
ReadRecsUpTo(recs, n) ==
  IF n = 0 THEN EmptyRead ELSE ReadRow(ReadRecsUpTo(recs, n - 1), recs[n], n)

ReadRecs(recs) == ReadRecsUpTo(recs, Len(recs))

(***************************************************************************)
(* encoding/csv as ingestCSV and buildZipCSV use it: Comma = ',',          *)
(* FieldsPerRecord = -1, no lazy quotes, UseCRLF off.  A text is the       *)
(* sequence of the characters of data.csv.                                 *)
(***************************************************************************)
IsSpace(c) == c \in {" ", "\t", "\n", "\r"}

\* csv.Writer: fieldNeedsQuotes
fieldNeedsQuotes(f) ==
  /\ f # <<>>
  /\ \/ f = <<"\\", ".">>
     \/ \E k \in 1..Len(f) : f[k] \in {"\n", "\r", "\"", ","}
     \/ IsSpace(f[1])

RECURSIVE DoubleQuotes(_)
DoubleQuotes(f) ==
  IF f = <<>> THEN <<>>
  ELSE (IF Head(f) = "\"" THEN <<"\"", "\"">> ELSE <<Head(f)>>) \o DoubleQuotes(Tail(f))

WriteField(f) ==
  IF fieldNeedsQuotes(f) THEN <<"\"">> \o DoubleQuotes(f) \o <<"\"">> ELSE f

RECURSIVE WriteFields(_)
WriteFields(rec) ==
  IF rec = <<>> THEN <<>>
  ELSE IF Len(rec) = 1 THEN WriteField(rec[1])
  ELSE WriteField(Head(rec)) \o <<",">> \o WriteFields(Tail(rec))

\* csv.Writer.Write: the fields, comma separated, and a newline
WriteRecord(rec) == WriteFields(rec) \o <<"\n">>

RECURSIVE WriteAll(_)
WriteAll(recs) ==
  IF recs = <<>> THEN <<>> ELSE WriteRecord(Head(recs)) \o WriteAll(Tail(recs))

\* csv.Reader: lengthNL, readLine (a line with its newline, \r\n made \n)
LengthNL(line) == IF line # <<>> /\ line[Len(line)] = "\n" THEN 1 ELSE 0

ReadLine(t, p) ==
  LET ends == {j \in p..Len(t) : t[j] = "\n"}
      j    == IF ends = {} THEN Len(t) ELSE CHOOSE e \in ends : \A o \in ends : e <= o
      raw  == SubSeq(t, p, j)
      n    == Len(raw)
      line == IF n >= 2 /\ raw[n - 1] = "\r" /\ raw[n] = "\n"
              THEN SubSeq(raw, 1, n - 2) \o <<"\n">>
              ELSE IF ends = {} /\ n >= 1 /\ raw[n] = "\r" THEN SubSeq(raw, 1, n - 1)
              ELSE raw
  IN [line |-> line, next |-> j + 1]

CsvError(p) == [kind |-> "err", rec |-> <<>>, next |-> p]

\* csv.Reader.readRecord, the fields of one record: line is what is left of the
\* current line, p the position of the next line, fields the fields so far
\* and, inside a quoted field, acc its characters so far
RECURSIVE ParseFields(_, _, _, _), ParseQuoted(_, _, _, _, _)
ParseFields(t, line, p, fields) ==
  IF line = <<>> \/ Head(line) # "\""
  THEN LET c     == IndexOf(line, ",")
           field == IF c > 0 THEN SubSeq(line, 1, c - 1)
                    ELSE SubSeq(line, 1, Len(line) - LengthNL(line))
       IN IF IndexOf(field, "\"") > 0 THEN CsvError(p)
          ELSE IF c > 0
          THEN ParseFields(t, SubSeq(line, c + 1, Len(line)), p, Append(fields, field))
          ELSE [kind |-> "rec", rec |-> Append(fields, field), next |-> p]
  ELSE ParseQuoted(t, Tail(line), p, fields, <<>>)

ParseQuoted(t, line, p, fields, acc) ==
  LET q == IndexOf(line, "\"")
  IN IF q > 0
     THEN LET got  == acc \o SubSeq(line, 1, q - 1)
              rest == SubSeq(line, q + 1, Len(line))
          IN IF rest # <<>> /\ Head(rest) = "\""
             THEN ParseQuoted(t, Tail(rest), p, fields, Append(got, "\""))
             ELSE IF rest # <<>> /\ Head(rest) = ","
             THEN ParseFields(t, Tail(rest), p, Append(fields, got))
             ELSE IF LengthNL(rest) = Len(rest)
             THEN [kind |-> "rec", rec |-> Append(fields, got), next |-> p]
             ELSE CsvError(p)
     ELSE IF line # <<>> /\ p <= Len(t)
     THEN LET l == ReadLine(t, p) IN ParseQuoted(t, l.line, l.next, fields, acc \o line)
     ELSE CsvError(p)

\* csv.Reader.Read at position p: empty lines are skipped
RECURSIVE ReadRecord(_, _)
ReadRecord(t, p) ==
  IF p > Len(t) THEN [kind |-> "eof", rec |-> <<>>, next |-> p]
  ELSE LET l == ReadLine(t, p)
       IN IF Len(l.line) = LengthNL(l.line) THEN ReadRecord(t, l.next)
          ELSE ParseFields(t, l.line, l.next, <<>>)

\* the records ingestCSV reads after the header line, whose error it ignores,
\* up to the end of the text or to the first record that fails to parse
RECURSIVE ReadAllFrom(_, _, _)
ReadAllFrom(t, p, recs) ==
  LET r == ReadRecord(t, p)
  IN IF r.kind = "eof" THEN [ok |-> TRUE, recs |-> recs]
     ELSE IF r.kind = "err" THEN [ok |-> FALSE, recs |-> recs]
     ELSE ReadAllFrom(t, r.next, Append(recs, r.rec))

CsvRecords(t) == ReadAllFrom(t, ReadRecord(t, 1).next, <<>>)

(***************************************************************************)
(* The request body and the archive in it.  A body is modelled by its      *)
(* format ("zip", "tar", or "none" for bytes that are no archive), the     *)
(* entries of the archive in archive order and the bytes that follow the   *)
(* archive.  An entry has a name, is a directory or a file, holds a text   *)
(* and takes up `bytes` bytes of the body (for a tar entry, the header     *)
(* block and the padded data).  The bodies of format "zip" carry no bytes  *)
(* after the archive.                                                      *)
(***************************************************************************)
\* io.LimitReader(r.Body, 50<<20)
BodyLimit == 52428800

\* the header block of a tar entry
TarBlock == 512

RECURSIVE SumBytes(_)
SumBytes(entries) ==
  IF entries = <<>> THEN 0 ELSE Head(entries).bytes + SumBytes(Tail(entries))

BodySize(body) == SumBytes(body.entries) + body.tail

\* io.ReadAll(io.LimitReader(...)): the first BodyLimit bytes, and no error
LimitRead(body) ==
  [format  |-> body.format,
   entries |-> body.entries,
   len     |-> IF BodySize(body) > BodyLimit THEN BodyLimit ELSE BodySize(body)]

\* path.Base
RECURSIVE StripSlashes(_)
StripSlashes(s) ==
  IF s # <<>> /\ s[Len(s)] = "/" THEN StripSlashes(SubSeq(s, 1, Len(s) - 1)) ELSE s

LastIndexOf(s, c) ==
  IF \E k \in 1..Len(s) : s[k] = c
  THEN CHOOSE k \in 1..Len(s) : s[k] = c /\ \A j \in (k + 1)..Len(s) : s[j] # c
  ELSE 0

Base(name) ==
  IF name = <<>> THEN <<".">>
  ELSE LET stripped == StripSlashes(name)
           last     == SubSeq(stripped, LastIndexOf(stripped, "/") + 1, Len(stripped))
       IN IF last = <<>> THEN <<"/">> ELSE last

DataCsv == <<"d", "a", "t", "a", ".", "c", "s", "v">>

\* variant: any entry whose name ends in .csv is taken
IsAnyCsv(name) ==
  LET n == Len(name)
  IN n >= 4 /\ ToLower(SubSeq(name, n - 3, n)) = <<".", "c", "s", "v">>

\* strings.EqualFold(path.Base(name), "data.csv")
IsDataCsv(name) == EqualFold(Base(name), DataCsv)

OpenError(msg) == [ok |-> FALSE, error |-> msg, text |-> <<>>]

Opened(e) == [ok |-> TRUE, error |-> "", text |-> IF e.dir THEN <<>> ELSE e.text]

\* the index of the first entry that IsDataCsv, or 0
FirstMatch(entries) ==
  IF \E k \in 1..Len(entries) : IsDataCsv(entries[k].name)
  THEN CHOOSE k \in 1..Len(entries) :
         /\ IsDataCsv(entries[k].name)
         /\ \A j \in 1..(k - 1) : ~IsDataCsv(entries[j].name)
  ELSE 0

\* openCSVFromZipBytes: zip.NewReader needs the directory at the end of the
\* archive; f.Open() of a directory entry reads as an empty file
openCSVFromZipBytes(b) ==
  IF b.format # "zip" \/ b.len < SumBytes(b.entries) THEN OpenError("invalid zip archive")
  ELSE IF FirstMatch(b.entries) = 0 THEN OpenError("data.csv not found in archive")
  ELSE Opened(b.entries[FirstMatch(b.entries)])

\* openCSVFromTarBytes: tr.Next() entry by entry from offset off; the entry k
\* is read from the first b.len bytes of the body
RECURSIVE TarScan(_, _, _)
TarScan(b, k, off) ==
  IF k > Len(b.entries) \/ off >= b.len THEN OpenError("data.csv not found in archive")
  ELSE IF off + TarBlock > b.len THEN OpenError("invalid tar archive")
  ELSE IF IsDataCsv(b.entries[k].name)
  THEN IF off + b.entries[k].bytes > b.len
       THEN OpenError("failed to read data.csv from tar")
       ELSE Opened(b.entries[k])
  ELSE IF off + b.entries[k].bytes > b.len THEN OpenError("invalid tar archive")
  ELSE TarScan(b, k + 1, off + b.entries[k].bytes)

openCSVFromTarBytes(b) ==
  IF b.format # "tar"
  THEN IF b.len = 0 THEN OpenError("data.csv not found in archive")
       ELSE OpenError("invalid tar archive")
  ELSE TarScan(b, 1, 0)

\* handlePricesPost up to ingestCSV: the type parameter, the body, the archive
OpenRequest(r) ==
  LET given       == TrimSpace(r.type)
      archiveType == IF given = <<>> THEN <<"z", "i", "p">> ELSE given
  IN IF archiveType # <<"z", "i", "p">> /\ archiveType # <<"t", "a", "r">>
     THEN OpenError("type must be zip or tar")
     ELSE IF archiveType = <<"z", "i", "p">> THEN openCSVFromZipBytes(LimitRead(r.body))
     ELSE openCSVFromTarBytes(LimitRead(r.body))

(***************************************************************************)
(* The upload requests the model sends: archives of both formats with      *)
(* data.csv alone, behind other entries, under a directory and in capital  *)
(* letters, behind a directory or an empty file of its name, without it,   *)
(* with a line the CSV reader cannot parse, bodies that exceed BodyLimit,  *)
(* and bodies that are no archive.                                         *)
(***************************************************************************)
HeaderRec ==
  << <<"i", "d">>, <<"n", "a", "m", "e">>, <<"c", "a", "t", "e", "g", "o", "r", "y">>,
     <<"p", "r", "i", "c", "e">>, <<"c", "r", "e", "a", "t", "e", "_", "d", "a", "t", "e">> >>

\* data.csv with the header and the rows of the file f
TextOf(f) == WriteAll(<<HeaderRec>> \o [k \in 1..Len(f) |-> RawRows[f[k]]])

\* a line with a quote inside an unquoted field
BadLine == <<"a", ",", "n", "\"", "x", ",", "c", ",", "1", ",">> \o DateA \o <<"\n">>

TextBad == TextOf(<<1>>) \o BadLine \o WriteRecord(RawRows[3])

\* a regular file as a tar entry: a header block and the data in whole blocks
FileEntry(name, text) ==
  [name |-> name, dir |-> FALSE, text |-> text,
   bytes |-> TarBlock + TarBlock * ((Len(text) + TarBlock - 1) \div TarBlock)]

DirEntry(name) == [name |-> name, dir |-> TRUE, text |-> <<>>, bytes |-> TarBlock]

\* an entry that fills the body up to the limit
BigEntry(name) == [name |-> name, dir |-> FALSE, text |-> <<>>, bytes |-> BodyLimit]

NameNested == <<"x", "/", "D", "A", "T", "A", ".", "C", "S", "V">>

NameOther == <<"p", ".", "c", "s", "v">>

NamePad == <<"p", "a", "d">>

Archives ==
  { <<FileEntry(DataCsv, TextOf(<<1, 3>>))>>,
    <<FileEntry(NameOther, TextOf(<<3>>)), FileEntry(NameNested, TextOf(<<3>>)),
      FileEntry(DataCsv, TextOf(<<1>>))>>,
    <<FileEntry(NameOther, TextOf(<<1>>))>>,
    <<DirEntry(DataCsv \o <<"/">>), FileEntry(DataCsv, TextOf(<<1>>))>>,
    <<FileEntry(<<"s", "/">> \o DataCsv, <<>>), FileEntry(DataCsv, TextOf(<<1>>))>>,
    <<DirEntry(DataCsv \o <<"/">>)>>,
    <<FileEntry(DataCsv, TextOf(<<1>>)), BigEntry(NamePad)>>,
    <<BigEntry(NamePad), FileEntry(DataCsv, TextOf(<<1>>))>>,
    <<FileEntry(DataCsv, TextBad)>> }

Bodies ==
  {[format |-> fm, entries |-> a, tail |-> 0] : fm \in {"zip", "tar"}, a \in Archives}
    \cup {[format |-> "tar", entries |-> <<FileEntry(DataCsv, TextOf(<<3>>))>>, tail |-> BodyLimit]}
    \cup {[format |-> "none", entries |-> <<>>, tail |-> t] : t \in {0, 3}}

Types == {<<>>, <<"z", "i", "p">>, <<"t", "a", "r">>, <<" ", "t", "a", "r">>, <<"r", "a", "r">>}

Requests == [type : Types, body : Bodies]

(***************************************************************************)
(* State.                                                                  *)
(*   prices     the table: rows [id, product_id, created_at, name,         *)
(*              category, price, xmin]; xmin is the inserting upload, and  *)
(*              a row is committed once that upload is "done"              *)
(*   seq        last value handed out by the BIGSERIAL sequence of id      *)
(*   pc         where each upload request stands                           *)
(*   file       the data rows of the request's data.csv                    *)
(*   rd         the result of the read loop (ReadCSV)                      *)
(*   i          index into validRows of the insert loop                    *)
(*   totalItems, duplicatesCount   the counters of the insert loop         *)
(*   newId      the id drawn for the INSERT that is waiting                *)
(*   agg        totalCategories and totalPrice as read by statsTx          *)
(*   resp       the HTTP response of the request                           *)
(*   cause      why a failed request failed: "fault" (the statement or the *)
(*              commit returned an error) or "deadlock"                    *)
(*   after      the uploads that had finished when the request arrived     *)
(*   rowsRead   data rows read so far by all requests                      *)
(*   get        the last export request (its four query parameters) and    *)
(*              its response; queried tells whether db.QueryContext ran    *)
(*   zip        the archive written in answer to the export request        *)
(*   req        the upload request (type parameter and body) of a request  *)
(*              that came with an archive                                  *)
(*   trip       an export and what uploading it into an empty store gave   *)
(*   twin       two stores that receive the same requests up to the        *)
(*              external identifiers of the rows, and their responses      *)
(***************************************************************************)
VARIABLES prices, seq, pc, file, rd, i, totalItems, duplicatesCount, newId,
          agg, resp, cause, after, rowsRead, get, zip, req, trip, twin

vars == <<prices, seq, pc, file, rd, i, totalItems, duplicatesCount, newId,
          agg, resp, cause, after, rowsRead, get, zip, req, trip, twin>>

Uploads == 1..MaxUploads

NoResp == [status |-> 0]

\* no export request yet
NoGet ==
  [q |-> [start |-> <<>>, end |-> <<>>, min |-> <<>>, max |-> <<>>],
   r |-> [status |-> 0, error |-> "", queried |-> FALSE, data |-> <<>>]]

\* no archive written
NoZip == [format |-> "none", entries |-> <<>>, tail |-> 0]

NoReq == [type |-> <<>>, body |-> [format |-> "none", entries |-> <<>>, tail |-> 0]]

NoTrip == [export |-> <<>>, run |-> [table |-> {}, seq |-> 0, resp |-> NoResp]]

EmptyStore == [table |-> {}, seq |-> 0, out |-> <<>>]

Active(u) == pc[u] \in {"insert", "wait", "commit"}

Finished(u) == pc[u] \in {"done", "failed"}

\* variant: the constraint also covers product_id
UniqKeyWithProductId(r) == <<r.product_id, r.created_at, r.name, r.category, r.price>>

\* CONSTRAINT prices_uniq UNIQUE (created_at, name, category, price)
UniqKey(r) == <<r.created_at, r.name, r.category, r.price>>

\* price NUMERIC(12,2): at most 12 - 2 digits before the point; NaN is a value
\* of the type, an infinity is not a value of a column with a precision
NumericPrecision == 12

NumericScale == 2

NumericFits(price) ==
  \/ price = NaN
  \/ price # Inf /\ Len(NatText(price \div 100)) <= NumericPrecision - NumericScale

\* product_id, name, category TEXT: a text value holds no byte 0x00
TextFits(t) == \A k \in 1..Len(t) : t[k] # NUL

\* variant: a statement sees the rows of transactions in progress too
AllRows == prices

\* the committed rows, which a statement of any session sees, and the rows a
\* statement of upload u sees under READ COMMITTED
Committed == {r \in prices : pc[r.xmin] = "done"}

Visible(u) == {r \in prices : r.xmin = u \/ pc[r.xmin] = "done"}

\* the text parameters of the INSERT are values the server takes
BindFits(r) == TextFits(r.product_id) /\ TextFits(r.name) /\ TextFits(r.category)

\* the tuple INSERT proposes for r := validRows[i]
NewRow(u, id) ==
  LET r == rd[u].validRows[i[u]]
  IN [id |-> id, product_id |-> r.InputID, created_at |-> r.CreatedAt, name |-> r.Name,
      category |-> r.Category, price |-> r.Price, xmin |-> u]

\* ON CONFLICT: the rows of the table that hold the proposed tuple's key
Conflicts(u) ==
  {r \in prices : UniqKey(r) = UniqKey(NewRow(u, 0))}

\* a conflicting row whose inserting transaction is still in progress
Blockers(u) == {r.xmin : r \in {c \in Conflicts(u) : c.xmin # u /\ Active(c.xmin)}}

\* variant: the rows of a transaction that ended in an error stay
RollbackKeepsRows(u) == prices

\* tx.Rollback(): the rows the transaction inserted are gone
Rollback(u) == {r \in prices : r.xmin # u}

\* the error text of ingestCSV for the statement that failed
ErrorAt(u) ==
  IF pc[u] = "commit" THEN "db commit failed"
  ELSE IF pc[u] = "insert" /\ i[u] > Len(rd[u].validRows) THEN "db stats failed"
  ELSE "db insert failed"

\* COUNT(DISTINCT category), COALESCE(SUM(price), 0)
RECURSIVE SumFinite(_)
SumFinite(S) ==
  IF S = {} THEN 0 ELSE LET r == CHOOSE x \in S : TRUE IN r.price + SumFinite(S \ {r})

\* a sum over a NaN is NaN
SumPrice(S) == IF \E r \in S : r.price = NaN THEN NaN ELSE SumFinite(S)

CountCategories(S) == Cardinality({r.category : r \in S})

Init ==
  /\ prices = {}
  /\ seq = 0
  /\ pc = [u \in Uploads |-> "idle"]
  /\ file = [u \in Uploads |-> <<>>]
  /\ rd = [u \in Uploads |-> EmptyRead]
  /\ i = [u \in Uploads |-> 0]
  /\ totalItems = [u \in Uploads |-> 0]
  /\ duplicatesCount = [u \in Uploads |-> 0]
  /\ newId = [u \in Uploads |-> 0]
  /\ agg = [u \in Uploads |-> [totalCategories |-> 0, totalPrice |-> 0]]
  /\ resp = [u \in Uploads |-> NoResp]
  /\ cause = [u \in Uploads |-> "none"]
  /\ after = [u \in Uploads |-> {}]
  /\ rowsRead = 0
  /\ get = NoGet
  /\ zip = NoZip
  /\ req = [u \in Uploads |-> NoReq]
  /\ trip = NoTrip
  /\ twin = [a |-> EmptyStore, b |-> EmptyStore]

(***************************************************************************)
(* handlePricesPost / ingestCSV up to BeginTx: the file is read whole,     *)
(* then the transaction begins.                                            *)
(***************************************************************************)
Post(u, f) ==
  /\ pc[u] = "idle"
  /\ rowsRead + Len(f) <= MaxTotalRows
  /\ file' = [file EXCEPT ![u] = f]
  /\ rd' = [rd EXCEPT ![u] = ReadCSV(f)]
  /\ i' = [i EXCEPT ![u] = 1]
  /\ totalItems' = [totalItems EXCEPT ![u] = 0]
  /\ duplicatesCount' = [duplicatesCount EXCEPT ![u] = rd'[u].rejectedAsDup]
  /\ pc' = [pc EXCEPT ![u] = "insert"]
  /\ after' = [after EXCEPT ![u] = {v \in Uploads : Finished(v)}]
  /\ rowsRead' = rowsRead + Len(f)
  /\ req' = [req EXCEPT ![u] = NoReq]
  /\ UNCHANGED <<prices, seq, newId, agg, resp, cause, get, trip, twin, zip>>

(***************************************************************************)
(* handlePricesPost with an archive in the body: the archive is opened,    *)
(* data.csv is read to its end, and either the request ends with a 400 or  *)
(* the transaction begins.                                                 *)
(***************************************************************************)
PostArchive(u, r) ==
  /\ pc[u] = "idle"
  /\ LET o    == OpenRequest(r)
         c    == CsvRecords(o.text)
         good == o.ok /\ c.ok
         rdr  == IF good THEN ReadRecs(c.recs) ELSE EmptyRead
     IN /\ good => rowsRead + Len(c.recs) <= MaxTotalRows
        /\ req' = [req EXCEPT ![u] = r]
        /\ file' = [file EXCEPT ![u] = <<>>]
        /\ rd' = [rd EXCEPT ![u] = rdr]
        /\ i' = [i EXCEPT ![u] = 1]
        /\ totalItems' = [totalItems EXCEPT ![u] = 0]
        /\ duplicatesCount' = [duplicatesCount EXCEPT ![u] = rdr.rejectedAsDup]
        /\ pc' = [pc EXCEPT ![u] = IF good THEN "insert" ELSE "failed"]
        /\ resp' = IF good THEN resp
                   ELSE [resp EXCEPT ![u] = [status |-> 400,
                                             error  |-> IF o.ok THEN "invalid csv" ELSE o.error]]
        /\ cause' = IF good THEN cause ELSE [cause EXCEPT ![u] = "request"]
        /\ after' = [after EXCEPT ![u] = {v \in Uploads : Finished(v)}]
        /\ rowsRead' = IF good THEN rowsRead + Len(c.recs) ELSE rowsRead
  /\ UNCHANGED <<prices, seq, newId, agg, get, trip, twin, zip>>

\* the request ends with an error: deferred tx.Rollback(), http.Error 400
Abort(u, why) ==
  /\ prices' = Rollback(u)
  /\ pc' = [pc EXCEPT ![u] = "failed"]
  /\ resp' = [resp EXCEPT ![u] = [status |-> 400, error |-> ErrorAt(u)]]
  /\ cause' = [cause EXCEPT ![u] = why]

\* variant: a conflicting row is counted as an added item
SkipCountsItem(u) ==
  /\ totalItems' = [totalItems EXCEPT ![u] = @ + 1]
  /\ i' = [i EXCEPT ![u] = @ + 1]
  /\ pc' = [pc EXCEPT ![u] = "insert"]
  /\ UNCHANGED <<prices, duplicatesCount, resp, cause>>

\* the INSERT found a conflicting row: RowsAffected() = 0
Skip(u) ==
  /\ duplicatesCount' = [duplicatesCount EXCEPT ![u] = @ + 1]
  /\ i' = [i EXCEPT ![u] = @ + 1]
  /\ pc' = [pc EXCEPT ![u] = "insert"]
  /\ UNCHANGED <<prices, totalItems, resp, cause>>

\* variant: an added row is not counted
StoreUncounted(u, id) ==
  /\ prices' = prices \cup {NewRow(u, id)}
  /\ i' = [i EXCEPT ![u] = @ + 1]
  /\ pc' = [pc EXCEPT ![u] = "insert"]
  /\ UNCHANGED <<totalItems, duplicatesCount, resp, cause>>

\* the INSERT added its row: RowsAffected() = 1
Store(u, id) ==
  /\ prices' = prices \cup {NewRow(u, id)}
  /\ totalItems' = [totalItems EXCEPT ![u] = @ + 1]
  /\ i' = [i EXCEPT ![u] = @ + 1]
  /\ pc' = [pc EXCEPT ![u] = "insert"]
  /\ UNCHANGED <<duplicatesCount, resp, cause>>

(***************************************************************************)
(* insertPriceTx: INSERT ... ON CONFLICT DO NOTHING.  The id is drawn from *)
(* the sequence when the tuple is formed, before the unique index is       *)
(* probed.  A conflicting row of a transaction still in progress makes the *)
(* statement wait for that transaction to end.  A text value that the      *)
(* server refuses fails the statement when its parameters are bound,       *)
(* before an id is drawn; a price that does not fit the column fails it    *)
(* after.                                                                  *)
(***************************************************************************)
Insert(u) ==
  /\ pc[u] = "insert"
  /\ i[u] <= Len(rd[u].validRows)
  /\ seq' = IF BindFits(NewRow(u, 0)) THEN seq + 1 ELSE seq
  /\ IF ~BindFits(NewRow(u, 0)) \/ ~NumericFits(NewRow(u, 0).price)
     THEN Abort(u, "fault") /\ UNCHANGED <<i, totalItems, duplicatesCount, newId>>
     ELSE IF Blockers(u) # {}
     THEN /\ pc' = [pc EXCEPT ![u] = "wait"]
          /\ newId' = [newId EXCEPT ![u] = seq + 1]
          /\ UNCHANGED <<prices, i, totalItems, duplicatesCount, resp, cause>>
     ELSE IF Conflicts(u) # {}
     THEN Skip(u) /\ UNCHANGED newId
     ELSE Store(u, seq + 1) /\ UNCHANGED newId
  /\ UNCHANGED <<file, rd, agg, after, rowsRead, get, req, trip, twin, zip>>

\* the transaction waited for has ended: the index is probed again
Resume(u) ==
  /\ pc[u] = "wait"
  /\ Blockers(u) = {}
  /\ IF Conflicts(u) # {} THEN Skip(u) ELSE Store(u, newId[u])
  /\ UNCHANGED <<seq, file, rd, newId, agg, after, rowsRead, get, req, trip, twin, zip>>

\* variant: the database finds no cycle of waits
NoCycleFound(u, v, n) == FALSE

\* the wait-for graph of the INSERTs that wait
RECURSIVE WaitsOn(_, _, _)
WaitsOn(u, v, n) ==
  /\ n > 0
  /\ pc[u] = "wait"
  /\ \E w \in Blockers(u) : w = v \/ WaitsOn(w, v, n - 1)

\* the deadlock detector of the database ends a waiting statement that is
\* part of a cycle with an error
Deadlock(u) ==
  /\ pc[u] = "wait"
  /\ WaitsOn(u, u, MaxUploads)
  /\ Abort(u, "deadlock")
  /\ UNCHANGED <<seq, file, rd, i, totalItems, duplicatesCount, newId, agg, after, rowsRead, get,
                 req, trip, twin, zip>>

\* statsTx, after the insert loop
Stats(u) ==
  /\ pc[u] = "insert"
  /\ i[u] > Len(rd[u].validRows)
  /\ agg' = [agg EXCEPT ![u] = [totalCategories |-> CountCategories(Visible(u)),
                                totalPrice      |-> SumPrice(Visible(u))]]
  /\ pc' = [pc EXCEPT ![u] = "commit"]
  /\ UNCHANGED <<prices, seq, file, rd, i, totalItems, duplicatesCount, newId, resp, cause,
                 after, rowsRead, get, req, trip, twin, zip>>

\* json.NewEncoder(w).Encode(resp), its error dropped: a NaN has no JSON form
\* and nothing is written, which leaves a 200 with an empty body
Encode(r) ==
  IF r.total_price = NaN THEN [status |-> 200, body |-> "empty"] ELSE r

\* tx.Commit() and the JSON response
Commit(u) ==
  /\ pc[u] = "commit"
  /\ pc' = [pc EXCEPT ![u] = "done"]
  /\ resp' = [resp EXCEPT ![u] = Encode([status           |-> 200,
                                         total_count      |-> rd[u].totalCount,
                                         duplicates_count |-> duplicatesCount[u],
                                         total_items      |-> totalItems[u],
                                         total_categories |-> agg[u].totalCategories,
                                         total_price      |-> agg[u].totalPrice])]
  /\ UNCHANGED <<prices, seq, file, rd, i, totalItems, duplicatesCount, newId, agg, cause,
                 after, rowsRead, get, req, trip, twin, zip>>

\* a statement of the transaction, or its commit, returns an error
Fault(u) ==
  /\ Active(u)
  /\ Abort(u, "fault")
  /\ UNCHANGED <<seq, file, rd, i, totalItems, duplicatesCount, newId, agg, after, rowsRead, get,
                 req, trip, twin, zip>>

(***************************************************************************)
(* GET /api/v0/prices: handlePricesGet, buildGetQuery.                     *)
(***************************************************************************)
\* strconv.Atoi on short decimal texts
Atoi(s) ==
  LET neg  == s # <<>> /\ Head(s) = "-"
      body == IF s # <<>> /\ Head(s) \in {"-", "+"} THEN Tail(s) ELSE s
  IN IF body # <<>> /\ AllDigits(body)
     THEN [ok |-> TRUE, n |-> IF neg THEN 0 - DigitsVal(body) ELSE DigitsVal(body)]
     ELSE [ok |-> FALSE, n |-> 0]

\* variant: the four comparisons are strict
WhereExclusive(r, hasStart, hasEnd, hasMin, hasMax, startDate, endDate, minPrice, maxPrice) ==
  /\ hasStart => r.created_at > startDate
  /\ hasEnd => r.created_at < endDate
  /\ hasMin => r.price > minPrice * 100
  /\ hasMax => r.price < maxPrice * 100

\* the WHERE clause of buildGetQuery; minPrice and maxPrice are whole units
Where(r, hasStart, hasEnd, hasMin, hasMax, startDate, endDate, minPrice, maxPrice) ==
  /\ hasStart => r.created_at >= startDate
  /\ hasEnd => r.created_at <= endDate
  /\ hasMin => r.price >= minPrice * 100
  /\ hasMax => r.price <= maxPrice * 100

\* variant: ORDER BY id
OrderById(a, b) == a.id < b.id

\* ORDER BY created_at, id
OrderBefore(a, b) ==
  a.created_at < b.created_at \/ (a.created_at = b.created_at /\ a.id < b.id)

RECURSIVE Ordered(_)
Ordered(S) ==
  IF S = {} THEN <<>>
  ELSE LET first == CHOOSE a \in S : \A b \in S \ {a} : OrderBefore(a, b)
       IN <<first>> \o Ordered(S \ {first})

\* rows.Scan into DBRow
DBRow(r) ==
  [ID |-> r.id, Name |-> r.name, Category |-> r.category, Price |-> r.price,
   CreatedAt |-> r.created_at]

\* variant: the price bounds are not compared
MinOverMaxUnchecked(hasMin, hasMax, minPrice, maxPrice) == FALSE

\* the check of the price bounds before the query is built
MinOverMax(hasMin, hasMax, minPrice, maxPrice) == hasMin /\ hasMax /\ minPrice > maxPrice

BadRequest(msg) == [status |-> 400, error |-> msg, queried |-> FALSE, data |-> <<>>]

\* the response to GET with the query parameters q, the table holding the
\* committed rows `table`
handlePricesGet(q, table) ==
  LET startStr == TrimSpace(q.start)
      endStr   == TrimSpace(q.end)
      minStr   == TrimSpace(q.min)
      maxStr   == TrimSpace(q.max)
      hasStart == startStr # <<>>
      hasEnd   == endStr # <<>>
      hasMin   == minStr # <<>>
      hasMax   == maxStr # <<>>
      startDate == ParseDate(startStr)
      endDate   == ParseDate(endStr)
      minPrice  == Atoi(minStr)
      maxPrice  == Atoi(maxStr)
      rows == {r \in table : Where(r, hasStart, hasEnd, hasMin, hasMax,
                                   startDate.date, endDate.date, minPrice.n, maxPrice.n)}
      seqRows == Ordered(rows)
  IN IF hasStart /\ ~startDate.ok THEN BadRequest("invalid start")
     ELSE IF hasEnd /\ ~endDate.ok THEN BadRequest("invalid end")
     ELSE IF hasMin /\ (~minPrice.ok \/ minPrice.n <= 0) THEN BadRequest("invalid min")
     ELSE IF hasMax /\ (~maxPrice.ok \/ maxPrice.n <= 0) THEN BadRequest("invalid max")
     ELSE IF MinOverMax(hasMin, hasMax, minPrice.n, maxPrice.n) THEN BadRequest("min > max")
     ELSE [status |-> 200, error |-> "", queried |-> TRUE,
           data |-> [k \in 1..Len(seqRows) |-> DBRow(seqRows[k])]]

(***************************************************************************)
(* buildZipCSV: the archive of an export.                                  *)
(***************************************************************************)
\* the decimal text of n in w digits
RECURSIVE Pad(_, _)
Pad(n, w) == IF w = 0 THEN <<>> ELSE Pad(n \div 10, w - 1) \o <<Digits[(n % 10) + 1]>>

\* r.CreatedAt.Format("2006-01-02")
FormatDate(d) ==
  Pad(d \div 10000, 4) \o <<"-">> \o Pad((d \div 100) % 100, 2) \o <<"-">> \o Pad(d % 100, 2)

\* the archive holds the one entry data.csv; its size in the body is taken as
\* that of a tar entry of the same text
buildZipCSV(data) ==
  LET recs == [k \in 1..Len(data) |->
                 <<NatText(data[k].ID), data[k].Name, data[k].Category,
                   formatMoney(data[k].Price), FormatDate(data[k].CreatedAt)>>]
  IN [format  |-> "zip",
      entries |-> <<FileEntry(DataCsv, WriteAll(<<HeaderRec>> \o recs))>>,
      tail    |-> 0]

\* the query parameters the model sends
GetDates == {<<>>, DateA, DateB}

GetPrices == {<<>>, <<"1">>, <<"9">>}

Queries ==
  [start : GetDates \cup {NoSuchDay}, end : GetDates, min : GetPrices \cup {<<"0">>}, max : GetPrices]

\* one export request is followed per behaviour
Get(q) ==
  /\ get = NoGet
  /\ \E r \in {handlePricesGet(q, Committed)} :
       /\ get' = [q |-> q, r |-> r]
       /\ zip' = IF r.status = 200 THEN buildZipCSV(r.data) ELSE NoZip
  /\ UNCHANGED <<prices, seq, pc, file, rd, i, totalItems, duplicatesCount, newId, agg, resp,
                 cause, after, rowsRead, req, trip, twin>>

(***************************************************************************)
(* An upload request served with no other request in progress and no       *)
(* failure of the database connection, as a function of the store          *)
(* [table, seq] it meets: handlePricesPost, ingestCSV, insertPriceTx,      *)
(* statsTx.                                                                *)
(***************************************************************************)
RECURSIVE InsertAll(_, _)
InsertAll(st, rows) ==
  IF rows = <<>> \/ ~st.ok THEN st
  ELSE LET r   == Head(rows)
           row == [id |-> st.seq + 1, product_id |-> r.InputID, created_at |-> r.CreatedAt,
                   name |-> r.Name, category |-> r.Category, price |-> r.Price, xmin |-> 0]
       IN IF ~BindFits(row) THEN [st EXCEPT !.ok = FALSE]
          ELSE IF ~NumericFits(row.price) THEN [st EXCEPT !.ok = FALSE, !.seq = @ + 1]
          ELSE IF \E c \in st.table : UniqKey(c) = UniqKey(row)
          THEN InsertAll([st EXCEPT !.seq = @ + 1, !.dups = @ + 1], Tail(rows))
          ELSE InsertAll([st EXCEPT !.seq = @ + 1, !.items = @ + 1, !.table = @ \cup {row}],
                         Tail(rows))

\* the response of an upload that read rdr and whose inserts ended in st
Respond(s, rdr, st) ==
  IF ~st.ok
  THEN [table |-> s.table, seq |-> st.seq,
        resp |-> [status |-> 400, error |-> "db insert failed"]]
  ELSE [table |-> st.table, seq |-> st.seq,
        resp |-> Encode([status           |-> 200,
                         total_count      |-> rdr.totalCount,
                         duplicates_count |-> st.dups,
                         total_items      |-> st.items,
                         total_categories |-> CountCategories(st.table),
                         total_price      |-> SumPrice(st.table)])]

\* the one element of a set of one element; used to name a value computed once
The(S) == CHOOSE x \in S : TRUE

ingestCSV(s, recs) ==
  The({The({Respond(s, rdr, st) :
              st \in {InsertAll([table |-> s.table, seq |-> s.seq, items |-> 0,
                                 dups |-> rdr.rejectedAsDup, ok |-> TRUE], rdr.validRows)}}) :
         rdr \in {ReadRecs(recs)}})

\* the request opened as o: the csv text read and ingested
Ingest(s, o) ==
  IF ~o.ok THEN [table |-> s.table, seq |-> s.seq, resp |-> [status |-> 400, error |-> o.error]]
  ELSE The({IF ~c.ok
            THEN [table |-> s.table, seq |-> s.seq,
                  resp |-> [status |-> 400, error |-> "invalid csv"]]
            ELSE ingestCSV(s, c.recs) : c \in {CsvRecords(o.text)}})

handlePricesPost(s, r) == The({Ingest(s, o) : o \in {OpenRequest(r)}})

(***************************************************************************)
(* The upload of an export into an empty store.                            *)
(***************************************************************************)
Reupload ==
  /\ get.r.status = 200
  /\ trip = NoTrip
  /\ \E run \in {handlePricesPost([table |-> {}, seq |-> 0], [type |-> <<>>, body |-> zip])} :
       trip' = [export |-> get.r.data, run |-> run]
  /\ UNCHANGED <<prices, seq, pc, file, rd, i, totalItems, duplicatesCount, newId, agg, resp,
                 cause, after, rowsRead, get, req, twin, zip>>

(***************************************************************************)
(* Two stores that are sent the same uploads and exports, the files of the *)
(* uploads differing in the external identifiers of their rows.            *)
(***************************************************************************)
MaxTwinSteps == 2

\* the files f and g differ at most in the external identifiers, none blank
IdsApart(f, g) ==
  /\ Len(f) = Len(g)
  /\ \A k \in 1..Len(f) :
       /\ Len(RawRows[f[k]]) = 5
       /\ Len(RawRows[g[k]]) = 5
       /\ TrimSpace(RawRows[f[k]][1]) # <<>>
       /\ TrimSpace(RawRows[g[k]][1]) # <<>>
       /\ Tail(RawRows[f[k]]) = Tail(RawRows[g[k]])

Served(s, run) ==
  [table |-> run.table, seq |-> run.seq, out |-> Append(s.out, run.resp)]

TwinPost(f, g) ==
  /\ Len(twin.a.out) < MaxTwinSteps
  /\ IdsApart(f, g)
  /\ \E ra \in {ingestCSV(twin.a, [k \in 1..Len(f) |-> RawRows[f[k]]])},
        rb \in {ingestCSV(twin.b, [k \in 1..Len(g) |-> RawRows[g[k]]])} :
       twin' = [a |-> Served(twin.a, ra), b |-> Served(twin.b, rb)]
  /\ UNCHANGED <<prices, seq, pc, file, rd, i, totalItems, duplicatesCount, newId, agg, resp,
                 cause, after, rowsRead, get, req, trip, zip>>

TwinGet(q) ==
  /\ Len(twin.a.out) < MaxTwinSteps
  /\ \E ra \in {handlePricesGet(q, twin.a.table)}, rb \in {handlePricesGet(q, twin.b.table)} :
       twin' = [a |-> [twin.a EXCEPT !.out = Append(@, ra)],
                b |-> [twin.b EXCEPT !.out = Append(@, rb)]]
  /\ UNCHANGED <<prices, seq, pc, file, rd, i, totalItems, duplicatesCount, newId, agg, resp,
                 cause, after, rowsRead, get, req, trip, zip>>

NoBounds == [start |-> <<>>, end |-> <<>>, min |-> <<>>, max |-> <<>>]

Next ==
  \/ \E u \in Uploads, f \in Files : Post(u, f)
  \/ \E u \in Uploads : Insert(u)
  \/ \E u \in Uploads : Resume(u)
  \/ \E u \in Uploads : Deadlock(u)
  \/ \E u \in Uploads : Stats(u)
  \/ \E u \in Uploads : Commit(u)
  \/ \E u \in Uploads : Fault(u)

Spec == Init /\ [][Next]_vars

(***************************************************************************)
(* The same requests with the scheduling the server gives them: the        *)
(* goroutine of a request runs its next statement when the database can    *)
(* answer it, and the deadlock detector runs once a statement has waited   *)
(* for deadlock_timeout.  A request need not arrive, and a statement need  *)
(* not fail.                                                               *)
(***************************************************************************)
Fairness ==
  \A u \in Uploads :
    /\ WF_vars(Insert(u))
    /\ WF_vars(Resume(u))
    /\ WF_vars(Deadlock(u))
    /\ WF_vars(Stats(u))
    /\ WF_vars(Commit(u))

SpecFair == Init /\ [][Next]_vars /\ Fairness

(***************************************************************************)
(* Exports beside one upload request.                                      *)
(***************************************************************************)
NextGet ==
  \/ \E f \in FilesGet : Post(1, f)
  \/ \E u \in Uploads : Insert(u)
  \/ \E u \in Uploads : Stats(u)
  \/ \E u \in Uploads : Commit(u)
  \/ \E u \in Uploads : Fault(u)
  \/ \E q \in Queries : Get(q)

SpecGet == Init /\ [][NextGet]_vars

(***************************************************************************)
(* One upload of a file of the validation rows.                            *)
(***************************************************************************)
NextVal ==
  \/ \E f \in FilesVal : Post(1, f)
  \/ \E u \in Uploads : Insert(u)
  \/ \E u \in Uploads : Stats(u)
  \/ \E u \in Uploads : Commit(u)
  \/ \E u \in Uploads : Fault(u)

SpecVal == Init /\ [][NextVal]_vars

(***************************************************************************)
(* Concurrent uploads, an export of everything, and the upload of that     *)
(* export into an empty store.                                             *)
(***************************************************************************)
NextTrip ==
  \/ \E u \in Uploads, f \in FilesTrip : Post(u, f)
  \/ \E u \in Uploads : Insert(u)
  \/ \E u \in Uploads : Resume(u)
  \/ \E u \in Uploads : Deadlock(u)
  \/ \E u \in Uploads : Stats(u)
  \/ \E u \in Uploads : Commit(u)
  \/ \E u \in Uploads : Fault(u)
  \/ Get(NoBounds)
  \/ Reupload

SpecTrip == Init /\ [][NextTrip]_vars

(***************************************************************************)
(* One upload and the export of everything.                                *)
(***************************************************************************)
NextZip ==
  \/ \E f \in FilesZip : Post(1, f)
  \/ \E u \in Uploads : Insert(u)
  \/ \E u \in Uploads : Stats(u)
  \/ \E u \in Uploads : Commit(u)
  \/ \E u \in Uploads : Fault(u)
  \/ Get(NoBounds)

SpecZip == Init /\ [][NextZip]_vars

(***************************************************************************)
(* One upload, no statement of which fails for a reason outside the file.  *)
(***************************************************************************)
NextBig ==
  \/ \E f \in FilesBig : Post(1, f)
  \/ \E u \in Uploads : Insert(u)
  \/ \E u \in Uploads : Stats(u)
  \/ \E u \in Uploads : Commit(u)

SpecBig == Init /\ [][NextBig]_vars

(***************************************************************************)
(* Two stores served the same requests up to the external identifiers.     *)
(***************************************************************************)
NextTwin ==
  \/ \E f, g \in FilesTwin : TwinPost(f, g)
  \/ \E q \in {NoBounds, [NoBounds EXCEPT !.min = <<"9">>]} : TwinGet(q)

SpecTwin == Init /\ [][NextTwin]_vars

(***************************************************************************)
(* One upload request with an archive.                                     *)
(***************************************************************************)
NextArc ==
  \/ \E r \in Requests : PostArchive(1, r)
  \/ \E u \in Uploads : Insert(u)
  \/ \E u \in Uploads : Stats(u)
  \/ \E u \in Uploads : Commit(u)
  \/ \E u \in Uploads : Fault(u)

SpecArc == Init /\ [][NextArc]_vars

(***************************************************************************)
(* Concurrent uploads of the files of the decimal separator checks.        *)
(***************************************************************************)
NextComma ==
  \/ \E u \in Uploads, f \in FilesComma : Post(u, f)
  \/ \E u \in Uploads : Insert(u)
  \/ \E u \in Uploads : Resume(u)
  \/ \E u \in Uploads : Deadlock(u)
  \/ \E u \in Uploads : Stats(u)
  \/ \E u \in Uploads : Commit(u)
  \/ \E u \in Uploads : Fault(u)

SpecComma == Init /\ [][NextComma]_vars

(***************************************************************************)
(* Properties.  RowValid and RowIdent restate, for one record of a file,   *)
(* what the read loop accepts and the identity (date, name, category,      *)
(* price) of an accepted record.                                           *)
(***************************************************************************)
Range(q) == {q[k] : k \in 1..Len(q)}

RowValid(rec) ==
  /\ Len(rec) = 5
  /\ \A k \in 1..5 : TrimSpace(rec[k]) # <<>>
  /\ ParseDate(TrimSpace(rec[5])).ok
  /\ parsePrice(rec[4]).ok

RowIdent(rec) ==
  <<ParseDate(TrimSpace(rec[5])).date, TrimSpace(rec[2]), TrimSpace(rec[3]), parsePrice(rec[4]).price>>

Ident(r) == <<r.created_at, r.name, r.category, r.price>>

\* for each row of the file f: is it valid, its identity, its external identifier
RowsOf(f) ==
  [k \in 1..Len(f) |->
     LET rec == RawRows[f[k]]
     IN IF RowValid(rec)
        THEN [valid |-> TRUE, ident |-> RowIdent(rec), id |-> TrimSpace(rec[1])]
        ELSE [valid |-> FALSE, ident |-> <<>>, id |-> <<>>]]

\* the valid rows that repeat the identity of an earlier valid row
InFileDups(rows) ==
  {b \in 1..Len(rows) :
     rows[b].valid /\ \E a \in 1..(b - 1) : rows[a].valid /\ rows[a].ident = rows[b].ident}

Invalid(rows) == {b \in 1..Len(rows) : ~rows[b].valid}

OwnRows(u) == {r \in prices : r.xmin = u}

C2_LaterTwinIsDuplicate ==
  \A u \in Uploads :
    pc[u] # "idle" =>
      LET rows == RowsOf(file[u])
          dups == InFileDups(rows)
      IN \A a, b \in 1..Len(rows) :
           ( /\ a < b
             /\ rows[a].valid
             /\ rows[b].valid
             /\ rows[a].ident = rows[b].ident
             /\ rows[a].id # rows[b].id
             /\ a \notin dups )
           => /\ b \notin Range(rd[u].lines)
              /\ \E k \in 1..Len(rd[u].lines) :
                   rd[u].lines[k] = a /\ rd[u].validRows[k].InputID = rows[a].id
              /\ rd[u].rejectedAsDup = Len(file[u]) - Len(rd[u].lines)
              /\ duplicatesCount[u] >= rd[u].rejectedAsDup
              /\ pc[u] = "done" => resp[u].duplicates_count = duplicatesCount[u]

C2_Witness ==
  \E u \in Uploads :
    /\ pc[u] = "done"
    /\ file[u] = <<1, 2>>
    /\ resp[u].duplicates_count = 1
    /\ resp[u].total_items = 1

\* C3: after an upload of an archive has succeeded, a later upload of the same
\* archive returns total_items = 0 and duplicates_count = total_count and adds no
\* row to the store.
C3_ReuploadAddsNothing ==
  \A u, v \in Uploads :
    ( /\ u # v
      /\ pc[u] = "done"
      /\ pc[v] = "done"
      /\ u \in after[v]
      /\ file[v] = file[u] )
    => /\ resp[v].total_items = 0
       /\ resp[v].duplicates_count = resp[v].total_count
       /\ OwnRows(v) = {}

C3_Witness ==
  \E u, v \in Uploads :
    /\ u # v
    /\ pc[u] = "done"
    /\ pc[v] = "done"
    /\ u \in after[v]
    /\ file[v] = file[u]
    /\ resp[u].total_items = 2
    /\ resp[v].duplicates_count = 2

\* C4: when a conditional insert, the aggregate query or the commit of an upload
\* fails, no row of that upload remains in the store and the caller gets an error.
C4_FailedUploadLeavesNothing ==
  \A u \in Uploads :
    pc[u] = "failed" =>
      /\ OwnRows(u) = {}
      /\ resp[u].status = 400
      /\ resp[u].error \in {"db insert failed", "db stats failed", "db commit failed"}

\* an upload that had inserted two rows failed at its commit
C4_Witness ==
  \E u \in Uploads :
    /\ pc[u] = "failed"
    /\ resp[u].error = "db commit failed"
    /\ totalItems[u] = 2

\* C5: two concurrent uploads whose rows share identity keys, in any row order,
\* both complete without a persistence error.
C5_SharedKeysNeverFail ==
  \A u \in Uploads : pc[u] = "failed" => cause[u] = "fault"

\* C6: a successful response has total_count = duplicates_count + total_items,
\* total_count is the number of data rows, and each rejected row, each in-file
\* duplicate and each row already in the store is counted once in duplicates_count.
C6_CountsAddUp ==
  \A u \in Uploads :
    pc[u] = "done" =>
      LET rows    == RowsOf(file[u])
          invalid == Invalid(rows)
          dups    == InFileDups(rows)
          offered == (1..Len(rows)) \ (invalid \cup dups)
          inStore == {b \in offered : \E r \in Committed : r.xmin # u /\ Ident(r) = rows[b].ident}
          added   == {b \in offered : \E r \in Committed : r.xmin = u /\ Ident(r) = rows[b].ident}
      IN /\ resp[u].total_count = Len(file[u])
         /\ resp[u].total_count = resp[u].duplicates_count + resp[u].total_items
         /\ resp[u].duplicates_count
              = Cardinality(invalid) + Cardinality(dups) + Cardinality(inStore)
         /\ resp[u].total_items = Cardinality(added)
         /\ resp[u].total_items = Cardinality(OwnRows(u))

\* three rows, the second with four fields, the third repeating the first: 3 / 2 / 1
C6_Witness ==
  \E u \in Uploads :
    /\ pc[u] = "done"
    /\ file[u] = <<1, 4, 2>>
    /\ resp[u].total_count = 3
    /\ resp[u].duplicates_count = 2
    /\ resp[u].total_items = 1

\* C7: total_categories and total_price of a successful upload are the number of
\* distinct categories and the sum of prices over all persisted records as of
\* that upload's commit.
C7_TotalsAsOfCommit ==
  [][\A u \in Uploads :
       (pc[u] = "commit" /\ pc'[u] = "done") =>
         /\ resp'[u].total_categories = CountCategories(Committed')
         /\ resp'[u].total_price = SumPrice(Committed')]_vars

\* C8: an export whose start date is later than its end date is rejected with an
\* input error and the store is not read.
C8_StartAfterEndRejected ==
  LET s == ParseDate(TrimSpace(get.q.start))
      e == ParseDate(TrimSpace(get.q.end))
  IN (get # NoGet /\ s.ok /\ e.ok /\ s.date > e.date)
       => get.r.status = 400 /\ ~get.r.queried

\* C9: an export whose minimum price is greater than its maximum price is
\* rejected with an input error and the store is not read.
C9_MinOverMaxRejected ==
  LET lo == Atoi(TrimSpace(get.q.min))
      hi == Atoi(TrimSpace(get.q.max))
  IN (get # NoGet /\ lo.ok /\ hi.ok /\ lo.n > hi.n)
       => get.r.status = 400 /\ ~get.r.queried

C9_Witness ==
  /\ get # NoGet
  /\ get.q = [start |-> DateA, end |-> DateB, min |-> <<"9">>, max |-> <<"1">>]
  /\ get.r.error = "min > max"
  /\ Committed # {}

\* C10: an export with no bounds returns every persisted record exactly once,
\* ordered by date ascending and, within equal dates, by id ascending.
C10_ExportAllOrdered ==
  [][(get = NoGet /\ get' # NoGet /\ get'.q = NoBounds) =>
       LET d == get'.r.data
       IN /\ get'.r.status = 200
          /\ Len(d) = Cardinality(Committed)
          /\ \A r \in Committed : \E k \in 1..Len(d) : d[k] = DBRow(r)
          /\ \A k \in 1..(Len(d) - 1) :
               \/ d[k].CreatedAt < d[k + 1].CreatedAt
               \/ (d[k].CreatedAt = d[k + 1].CreatedAt /\ d[k].ID < d[k + 1].ID)]_vars

\* ids 1, 2, 3 were given in file order to dates 02, 01, 01
C10_Witness ==
  /\ get.q = NoBounds
  /\ get.r.status = 200
  /\ Len(get.r.data) = 3
  /\ <<get.r.data[1].ID, get.r.data[2].ID, get.r.data[3].ID>> = <<2, 3, 1>>

\* a query parameter that is present (not blank)
Supplied(t) == TrimSpace(t) # <<>>

\* C11: for every subset of the four export bounds that is supplied, a persisted
\* record is in the export if and only if it satisfies every supplied bound
\* inclusively (start <= date, date <= end, min <= price, price <= max); an
\* omitted bound filters nothing.
C11_BoundsInclusive ==
  [][(get = NoGet /\ get' # NoGet /\ get'.r.status = 200) =>
       LET q == get'.q
           d == get'.r.data
           InBounds(r) ==
             /\ Supplied(q.start) => ParseDate(TrimSpace(q.start)).date <= r.created_at
             /\ Supplied(q.end) => r.created_at <= ParseDate(TrimSpace(q.end)).date
             /\ Supplied(q.min) => Atoi(TrimSpace(q.min)).n * 100 <= r.price
             /\ Supplied(q.max) => r.price <= Atoi(TrimSpace(q.max)).n * 100
       IN \A r \in Committed : InBounds(r) <=> (\E k \in 1..Len(d) : d[k] = DBRow(r))]_vars

\* three records are stored; the one of price 1.00 on 2024-01-01 is returned for
\* the bounds 2024-01-01..2024-01-01 and 1..1, each met with equality
C11_Witness ==
  /\ get.q = [start |-> DateA, end |-> DateA, min |-> <<"1">>, max |-> <<"1">>]
  /\ get.r.status = 200
  /\ Len(get.r.data) = 1
  /\ get.r.data[1].Price = 100
  /\ get.r.data[1].CreatedAt = 20240101
  /\ Cardinality(Committed) = 3

\* the records of the file of upload u
RecsOf(u) == [k \in 1..Len(file[u]) |-> RawRows[file[u][k]]]

\* the price a text stands for, in hundredths: a number, with a comma or a
\* period as the decimal separator, rounded to two decimals
PriceRead(text) == ParseFloat(ReplaceAll(TrimSpace(text), ",", "."))

PositivePrice(text) ==
  PriceRead(text).ok /\ ~PriceRead(text).nan /\ RoundCents(PriceRead(text).mills) > 0

\* a record that validation is to accept
Acceptable(rec) ==
  /\ Len(rec) = 5
  /\ \A k \in 1..5 : TrimSpace(rec[k]) # <<>>
  /\ PositivePrice(rec[4])
  /\ ParseDate(TrimSpace(rec[5])).ok

\* C18: a row is accepted by validation if and only if it has exactly 5 fields,
\* every field is non-empty after trimming, the price parses to a value that is
\* positive after rounding to two decimals, and the date parses as a YYYY-MM-DD
\* calendar date; every other row is rejected and counted, whatever the store and
\* the rows before it hold.  (An accepted row is kept for insertion unless it
\* repeats the identity of an earlier accepted row.)
C18_ValidationIff ==
  \A u \in Uploads :
    pc[u] # "idle" =>
      LET recs     == RecsOf(u)
          accepted == {k \in 1..Len(recs) : Acceptable(recs[k])}
          first    == {k \in accepted :
                         \A j \in accepted : j < k => RowIdent(recs[j]) # RowIdent(recs[k])}
      IN /\ Range(rd[u].lines) = first
         /\ rd[u].totalCount = Len(recs)
         /\ rd[u].rejectedAsDup = Len(recs) - Cardinality(first)

\* two records that differ in the decimal separator of the price text only
CommaTwins(r1, r2) ==
  /\ Len(r1) = 5
  /\ Len(r2) = 5
  /\ r1 # r2
  /\ [r1 EXCEPT ![4] = ReplaceAll(@, ",", ".")] = [r2 EXCEPT ![4] = ReplaceAll(@, ",", ".")]

\* C19: a price text written with a decimal comma normalizes to the same value as
\* the same text written with a decimal period, so two rows differing only in
\* that separator are duplicates of each other within an upload and across
\* uploads.
C19_CommaIsPeriod ==
  \A u \in Uploads :
    pc[u] # "idle" =>
      LET recs == RecsOf(u)
      IN /\ \A a, b \in 1..Len(recs) :
              (a < b /\ CommaTwins(recs[a], recs[b]) /\ Acceptable(recs[a]) /\ Acceptable(recs[b]))
              => /\ b \notin Range(rd[u].lines)
                 /\ \E k \in 1..Len(rd[u].lines) :
                      /\ rd[u].lines[k] <= a
                      /\ rd[u].validRows[k].Price = RoundCents(PriceRead(recs[a][4]).mills)
                      /\ rd[u].validRows[k].Price = RoundCents(PriceRead(recs[b][4]).mills)
                      /\ rd[u].validRows[k].Name = TrimSpace(recs[a][2])
         /\ \A v \in after[u] :
              (pc[u] = "done" /\ pc[v] = "done") =>
                \A a \in 1..Len(file[v]), b \in 1..Len(recs) :
                  ( /\ CommaTwins(RawRows[file[v][a]], recs[b])
                    /\ Acceptable(RawRows[file[v][a]])
                    /\ Acceptable(recs[b]) )
                  => /\ \A r \in OwnRows(u) : Ident(r) # RowIdent(recs[b])
                     /\ Cardinality({r \in Committed : Ident(r) = RowIdent(recs[b])}) = 1
                     /\ resp[u].duplicates_count >= 1

\* 12,50 was stored by one upload as 12.50; a later upload of 12.50 and 12,50
\* added nothing and counted both as duplicates
C19_Witness ==
  \E u, v \in Uploads :
    /\ pc[u] = "done"
    /\ pc[v] = "done"
    /\ u \in after[v]
    /\ file[u] = <<8>>
    /\ file[v] = <<9, 8>>
    /\ resp[u].total_items = 1
    /\ resp[v].total_items = 0
    /\ resp[v].duplicates_count = 2
    /\ \E r \in Committed : r.price = 1250 /\ r.xmin = u

\* the archive kind a request declares: the type parameter, zip when absent
Declared(r) ==
  LET t == TrimSpace(r.type)
  IN IF t = <<>> \/ t = <<"z", "i", "p">> THEN "zip"
     ELSE IF t = <<"t", "a", "r">> THEN "tar" ELSE "other"

\* the body is an archive of the declared kind and within the size limit
Readable(r) ==
  /\ Declared(r) \in {"zip", "tar"}
  /\ r.body.format = Declared(r)
  /\ BodySize(r.body) <= BodyLimit

\* the last component of the entry name is data.csv in some letter case
PayloadName(name) ==
  \E k \in 1..Len(name) :
    /\ k + 7 <= Len(name)
    /\ ToLower(SubSeq(name, k, k + 7)) = DataCsv
    /\ k = 1 \/ name[k - 1] = "/"
    /\ \A j \in (k + 8)..Len(name) : name[j] = "/"

\* the least element of a non-empty set of numbers
Least(S) == CHOOSE k \in S : \A j \in S : k <= j

\* the upload u went on with the text `text` as its data.csv
ReadAs(u, text) ==
  IF CsvRecords(text).ok
  THEN /\ rd[u] = ReadRecs(CsvRecords(text).recs)
       /\ cause[u] # "request"
  ELSE pc[u] = "failed" /\ resp[u].error = "invalid csv"

NotFound(u) ==
  /\ pc[u] = "failed"
  /\ resp[u] = [status |-> 400, error |-> "data.csv not found in archive"]
  /\ OwnRows(u) = {}

\* C20: unwrapping selects the first entry in archive order whose base filename
\* equals data.csv case-insensitively, wherever it sits in the directory tree;
\* when no entry matches, the upload fails with payload-not-found and persists
\* nothing, even if the archive holds other CSV files.
C20_FirstMatchSelected ==
  \A u \in Uploads :
    (pc[u] # "idle" /\ req[u] # NoReq /\ Readable(req[u])) =>
      LET es   == req[u].body.entries
          hits == {k \in 1..Len(es) : PayloadName(es[k].name)}
      IN IF hits = {} THEN NotFound(u)
         ELSE ReadAs(u, IF es[Least(hits)].dir THEN <<>> ELSE es[Least(hits)].text)

\* of p.csv, x/DATA.CSV and data.csv the second was read: its one row is stored
C20_Witness ==
  /\ pc[1] = "done"
  /\ req[1].type = <<"t", "a", "r">>
  /\ Len(req[1].body.entries) = 3
  /\ req[1].body.entries[2].name = NameNested
  /\ resp[1].total_items = 1
  /\ \A r \in Committed : r.category = <<"d">>

\* C14: when unwrapping a zip or tar archive, a directory entry or a zero-length
\* entry whose base name matches data.csv is skipped: if a later non-empty
\* regular entry named data.csv exists, its content is the payload, and
\* otherwise the result is payload-not-found.
C14_EmptyEntriesSkipped ==
  \A u \in Uploads :
    (pc[u] # "idle" /\ req[u] # NoReq /\ Readable(req[u])) =>
      LET es   == req[u].body.entries
          hits == {k \in 1..Len(es) :
                     PayloadName(es[k].name) /\ ~es[k].dir /\ es[k].text # <<>>}
      IN IF hits = {} THEN NotFound(u) ELSE ReadAs(u, es[Least(hits)].text)

\* C15: an upload whose body exceeds the size ceiling is rejected with an error
\* before any archive or CSV parsing starts, and persists nothing; it is never
\* processed in truncated form.
C15_OversizeRejected ==
  \A u \in Uploads :
    (pc[u] # "idle" /\ req[u] # NoReq /\ BodySize(req[u].body) > BodyLimit) =>
      /\ pc[u] = "failed"
      /\ resp[u].status = 400
      /\ OwnRows(u) = {}

\* the lines of a text after its first line, each with its newline
RECURSIVE LinesFrom(_, _)
LinesFrom(t, p) ==
  IF p > Len(t) THEN <<>> ELSE <<ReadLine(t, p).line>> \o LinesFrom(t, ReadLine(t, p).next)

DataLines(t) == Tail(LinesFrom(t, 1))

\* C13: a malformed row never aborts an upload: every row-level problem
\* (including a row the CSV reader itself cannot parse) is tallied in
\* duplicates_count and skipped, and the remaining rows of the file are still
\* processed and persisted.  (The texts of the model hold one row per line.)
C13_MalformedRowSkipped ==
  \A u \in Uploads :
    (pc[u] # "idle" /\ req[u] # NoReq /\ OpenRequest(req[u]).ok) =>
      LET t     == OpenRequest(req[u]).text
          lines == IF t = <<>> THEN <<>> ELSE DataLines(t)
          bad   == {k \in 1..Len(lines) : ReadRecord(lines[k], 1).kind = "err"}
          good  == [k \in (1..Len(lines)) \ bad |-> ReadRecord(lines[k], 1).rec]
      IN /\ cause[u] # "request"
         /\ rd[u].totalCount = Len(lines)
         /\ rd[u].rejectedAsDup >= Cardinality(bad)
         /\ \A k \in DOMAIN good :
              (Acceptable(good[k]) /\ \A j \in DOMAIN good : j < k => good[j] # good[k])
                => k \in Range(rd[u].lines)

\* C12: exporting a store without bounds and uploading the resulting archive
\* into an empty store persists exactly one record per exported record with the
\* same (date, name, category, price), with total_items equal to the number of
\* exported records and duplicates_count = 0.
C12_RoundTrip ==
  trip # NoTrip =>
    LET d == trip.export
    IN /\ trip.run.resp.status = 200
       /\ trip.run.resp.total_items = Len(d)
       /\ trip.run.resp.duplicates_count = 0
       /\ Cardinality(trip.run.table) = Len(d)
       /\ {Ident(r) : r \in trip.run.table}
            = {<<d[k].CreatedAt, d[k].Name, d[k].Category, d[k].Price>> : k \in 1..Len(d)}

\* C16: an export that runs concurrently with an upload returns either all of
\* the rows that upload inserts or none of them: it never returns rows of an
\* upload that aborts and never a strict non-empty subset of the rows of an
\* upload that commits.
C16_ExportAllOrNone ==
  [][(get = NoGet /\ get' # NoGet /\ get'.r.status = 200) =>
       \A u \in Uploads :
         LET ids == {get'.r.data[k].ID : k \in 1..Len(get'.r.data)}
             own == {r.id : r \in OwnRows(u)}
         IN \/ ids \cap own = {}
            \/ pc[u] = "done" /\ own \subseteq ids]_vars

\* the export holds the row of id 2 of one upload and not the row of id 1 that
\* another upload had inserted before: that upload was in progress at the
\* export, and it has since committed two rows
C16_Witness ==
  \E u, v \in Uploads :
    /\ u # v
    /\ get.r.status = 200
    /\ {get.r.data[k].ID : k \in 1..Len(get.r.data)} = {2}
    /\ \E r \in OwnRows(v) : r.id = 2
    /\ \E r \in OwnRows(u) : r.id = 1
    /\ Cardinality(OwnRows(u)) = 2
    /\ pc[u] = "done"

\* C17: external identifiers have no influence on observable results: two
\* sequences of uploads and exports that differ only in the (non-empty) external
\* identifier values of their rows produce identical upload responses and
\* identical export contents, and every exported id is the system-assigned
\* surrogate, unique across persisted records.
C17_IdsDoNotMatter ==
  /\ twin.a.out = twin.b.out
  /\ \A s \in {twin.a, twin.b} :
       /\ \A r1, r2 \in s.table : r1.id = r2.id => r1 = r2
       /\ \A r \in s.table : r.id \in 1..s.seq

\* the first line of an export
HeaderLine ==
  <<"i", "d", ",", "n", "a", "m", "e", ",", "c", "a", "t", "e", "g", "o", "r", "y", ",",
    "p", "r", "i", "c", "e", ",", "c", "r", "e", "a", "t", "e", "_", "d", "a", "t", "e", "\n">>

\* digits, a point and two digits
TwoDecimals(t) ==
  /\ Len(t) >= 4
  /\ t[Len(t) - 2] = "."
  /\ AllDigits(SubSeq(t, 1, Len(t) - 3))
  /\ AllDigits(SubSeq(t, Len(t) - 1, Len(t)))

\* YYYY-MM-DD
IsoDate(t) ==
  /\ Len(t) = 10
  /\ t[5] = "-"
  /\ t[8] = "-"
  /\ AllDigits(SubSeq(t, 1, 4) \o SubSeq(t, 6, 7) \o SubSeq(t, 9, 10))

\* C21: every export archive contains exactly one entry, data.csv, whose first
\* line is the header id,name,category,price,create_date followed by exactly one
\* row per returned record in query order, with price rendered with two decimal
\* digits and date as YYYY-MM-DD; an export matching no record still yields the
\* header alone.
C21_ExportFormat ==
  get.r.status = 200 =>
    /\ Len(zip.entries) = 1
    /\ zip.entries[1].name = DataCsv
    /\ ~zip.entries[1].dir
    /\ LET text == zip.entries[1].text
           d    == get.r.data
           c    == CsvRecords(text)
       IN /\ Len(text) >= Len(HeaderLine)
          /\ SubSeq(text, 1, Len(HeaderLine)) = HeaderLine
          /\ d = <<>> => text = HeaderLine
          /\ c.ok
          /\ Len(c.recs) = Len(d)
          /\ \A k \in 1..Len(d) :
               /\ Len(c.recs[k]) = 5
               /\ c.recs[k][1] = NatText(d[k].ID)
               /\ c.recs[k][2] = d[k].Name
               /\ c.recs[k][3] = d[k].Category
               /\ TwoDecimals(c.recs[k][4])
               /\ parsePrice(c.recs[k][4]).price = d[k].Price
               /\ IsoDate(c.recs[k][5])
               /\ ParseDate(c.recs[k][5]).date = d[k].CreatedAt

\* the first row of the file that is valid and has the identity of the stored
\* row r (0 if there is none)
FirstLine(rows, r) ==
  LET S == {a \in 1..Len(rows) : rows[a].valid /\ rows[a].ident = Ident(r)}
  IN IF S = {} THEN 0 ELSE CHOOSE a \in S : \A b \in S : a <= b

\* C22: when an identity key occurs several times in one upload and is not yet
\* in the store, the record persisted for it carries the external identifier of
\* its first occurrence in file order, and novel rows are inserted in file order
\* so that their surrogate ids increase in file order.
C22_FirstOccurrenceInFileOrder ==
  \A u \in Uploads :
    LET rows == RowsOf(file[u])
    IN /\ \A r \in OwnRows(u) :
            /\ FirstLine(rows, r) # 0
            /\ r.product_id = rows[FirstLine(rows, r)].id
       /\ \A r1, r2 \in OwnRows(u) :
            FirstLine(rows, r1) < FirstLine(rows, r2) => r1.id < r2.id

\* an upload of a row, a row of another identity and a repeat of the first row
\* under another external identifier has committed its two records
C22_Witness ==
  \E u \in Uploads :
    /\ pc[u] = "done"
    /\ file[u] = <<1, 3, 2>>
    /\ \E r1, r2 \in OwnRows(u) :
         /\ r1.id < r2.id
         /\ r1.product_id = TrimSpace(RawRows[1][1])
         /\ TrimSpace(RawRows[2][1]) # r1.product_id
         /\ r1.name = TrimSpace(RawRows[2][2])
         /\ r2.category = RawRows[3][3]

\* C23: every upload that begins its unit of work eventually commits or aborts
\* under any interleaving with other uploads, including two uploads that insert
\* the same two keys in opposite order; no upload waits forever on another.
C23_UploadsEnd ==
  \A u \in Uploads : Active(u) ~> Finished(u)

\* two uploads with the same two keys in opposite order have both ended, one
\* of them by the deadlock detector
C23_Witness ==
  \E u, v \in Uploads :
    /\ file[u] = <<1, 3>>
    /\ file[v] = <<3, 1>>
    /\ pc[u] = "failed"
    /\ cause[u] = "deadlock"
    /\ pc[v] = "done"

\* C24: the results of concurrent uploads are consistent with some serial order:
\* whenever two uploads both commit, at least one of them reports
\* total_categories and total_price that include the rows inserted by the other.
C24_SomeSerialOrder ==
  \A u, v \in Uploads :
    (u # v /\ pc[u] = "done" /\ pc[v] = "done") =>
      \E w \in {u, v} :
        \E S \in SUBSET Committed :
          /\ OwnRows(u) \cup OwnRows(v) \subseteq S
          /\ resp[w].total_categories = CountCategories(S)
          /\ resp[w].total_price = SumPrice(S)

\* the sum of total_items over the uploads of S, all committed
RECURSIVE SumItems(_)
SumItems(S) ==
  IF S = {} THEN 0
  ELSE LET u == CHOOSE x \in S : TRUE IN resp[u].total_items + SumItems(S \ {u})

\* C25: starting from an empty store, after any set of sequential or concurrent
\* uploads has finished, the number of persisted records equals the sum of
\* total_items over the uploads that committed; uploads that failed contribute
\* zero records.
C25_RecordsAreItems ==
  (\A u \in Uploads : ~Active(u)) =>
    /\ Cardinality(prices) = SumItems({u \in Uploads : pc[u] = "done"})
    /\ \A u \in Uploads : pc[u] = "failed" => OwnRows(u) = {}

\* one upload has committed two records and another, which had inserted a
\* record, has failed
C25_Witness ==
  \E u, v \in Uploads :
    /\ pc[u] = "done"
    /\ resp[u].total_items = 2
    /\ pc[v] = "failed"
    /\ totalItems[v] >= 1
    /\ Cardinality(prices) = 2

\* C26: the in-upload dedup key and the store's uniqueness key agree: within the
\* transaction of one upload no conditional insert conflicts with a row inserted
\* earlier by the same upload, so an upload into an empty store with no
\* concurrent writer has total_items equal to the number of distinct valid
\* identity keys in the file.
C26_KeysAgree ==
  \A u \in Uploads :
    (pc[u] = "done" /\ \A v \in Uploads \ {u} : pc[v] = "idle") =>
      LET rows == RowsOf(file[u])
      IN /\ resp[u].total_items
              = Cardinality({rows[a].ident : a \in {b \in 1..Len(rows) : rows[b].valid}})
         /\ resp[u].duplicates_count = rd[u].rejectedAsDup

\* C27: a row that passes validation never makes the unit of work fail: every
\* accepted price lies within the range the persisted price column can hold, so
\* no accepted row (for example one with a very large price) causes the whole
\* upload to abort with a persistence error.
C27_AcceptedRowsNeverFail ==
  \A u \in Uploads :
    /\ pc[u] # "failed"
    /\ \A k \in 1..Len(rd[u].validRows) : NumericFits(rd[u].validRows[k].Price)

====
